---------------------------- MODULE Spec2Model ----------------------------
(***************************************************************************)
(* Model of parsing_lambda_check.py: the s3_tagger pipeline                *)
(*   s3_event_info -> file_downloader -> sheet_name_grabber -> tagger      *)
(*   -> uploader                                                           *)
(* Python strings are sequences of one-character strings; Python values    *)
(* are tagged records; a call either returns a value or raises.            *)
(***************************************************************************)
EXTENDS Integers, Sequences, FiniteSets, TLC

(***************************************************************************)
(* Python values                                                           *)
(***************************************************************************)
Str(s)  == [t |-> "str", s |-> s]
PyInt(n)  == [t |-> "int", n |-> n]
Float(w, f) == [t |-> "float", w |-> w, f |-> f]
Bool(b) == [t |-> "bool", b |-> b]
None    == [t |-> "None"]
Dict(d) == [t |-> "dict", d |-> d]
List(l) == [t |-> "list", l |-> l]

\* isinstance(v, str)
IsStr(v) == v.t = "str"

\* the outcome of a call: a returned value, or a raised exception
Return(v) == [ok |-> TRUE, val |-> v]
Raise(e)  == [ok |-> FALSE, err |-> e]

(***************************************************************************)
(* String literals of the program                                          *)
(***************************************************************************)
S_Records == <<"R","e","c","o","r","d","s">>
S_Sns     == <<"S","n","s">>
S_Message == <<"M","e","s","s","a","g","e">>
S_s3      == <<"s","3">>
S_bucket  == <<"b","u","c","k","e","t">>
S_name    == <<"n","a","m","e">>
S_object  == <<"o","b","j","e","c","t">>
S_key     == <<"k","e","y">>
S_Table   == <<"T","a","b","l","e">>
S_xlsx    == <<".","x","l","s","x">>
S_tagged  == <<"_","t","a","g","g","e","d",".","c","s","v">>
S_TagsDir == <<"T","a","g","s","/">>
S_Uploaded == <<"T","h","e"," ","f","i","l","e"," ","h","a","s"," ","b","e","e","n",
                " ","u","p","l","o","a","d","e","d"," ","t","o"," ">>
S_ColName == <<"T","a","b","l","e","_","N","a","m","e","/","K","a","f","k","a","_",
               "N","a","m","e">>
S_ColTags == <<"T","a","g","s">>
S_None    == <<"N","o","n","e">>
S_True    == <<"T","r","u","e">>
S_False   == <<"F","a","l","s","e">>
S_null    == <<"n","u","l","l">>
S_true    == <<"t","r","u","e">>
S_false   == <<"f","a","l","s","e">>

(***************************************************************************)
(* Python string and subscript primitives                                  *)
(***************************************************************************)
\* s[i:i+len(p)] == p, with i a 1-based position
MatchAt(s, i, p) ==
    /\ i >= 1
    /\ i + Len(p) - 1 <= Len(s)
    /\ \A j \in 1..Len(p) : s[i + j - 1] = p[j]

\* p in s
Contains(s, p) == \E i \in 1..(Len(s) + 1) : MatchAt(s, i, p)

DigitChars == <<"0","1","2","3","4","5","6","7","8","9">>
IsDigit(c) == \E d \in 1..10 : DigitChars[d] = c
DigitVal(c) == (CHOOSE d \in 1..10 : DigitChars[d] = c) - 1

RECURSIVE IntStr(_)
\* str(n) for an int n >= 0
IntStr(n) == IF n < 10 THEN <<DigitChars[n + 1]>>
             ELSE IntStr(n \div 10) \o <<DigitChars[(n % 10) + 1]>>

\* str(v) for the values a cell can hold
PyStr(v) ==
    CASE v.t = "str"   -> v.s
      [] v.t = "int"   -> IntStr(v.n)
      [] v.t = "float" -> IntStr(v.w) \o <<".">> \o IntStr(v.f)
      [] v.t = "bool"  -> IF v.b THEN S_True ELSE S_False
      [] v.t = "None"  -> S_None

\* v.get(k) in the place of v[k]: a missing key gives None
GetKeyOrNone(v, k) ==
    CASE v.t = "dict" -> IF k \in DOMAIN v.d THEN Return(v.d[k]) ELSE Return(None)
      [] OTHER        -> Raise("TypeError")

\* v[k] with k a str
GetKey(v, k) ==
    CASE v.t = "dict" -> IF k \in DOMAIN v.d THEN Return(v.d[k]) ELSE Raise("KeyError")
      [] OTHER        -> Raise("TypeError")

\* v[i] with i an int; a negative i counts from the end
GetIndex(v, i) ==
    CASE v.t = "list" ->
            IF i >= 0 /\ i + 1 <= Len(v.l) THEN Return(v.l[i + 1])
            ELSE IF i < 0 /\ Len(v.l) + i >= 0 THEN Return(v.l[Len(v.l) + i + 1])
            ELSE Raise("IndexError")
      [] v.t = "str"  ->
            IF i >= 0 /\ i + 1 <= Len(v.s) THEN Return(Str(<<v.s[i + 1]>>))
            ELSE IF i < 0 /\ Len(v.s) + i >= 0 THEN Return(Str(<<v.s[Len(v.s) + i + 1]>>))
            ELSE Raise("IndexError")
      [] v.t = "dict" -> Raise("KeyError")
      [] OTHER        -> Raise("TypeError")

\* the subscripts of a path: ['name'] and [i]
Key(k)   == [index |-> FALSE, key |-> k]
Index(i) == [index |-> TRUE, i |-> i]

RECURSIVE GetPath(_, _, _)
\* v[p1][p2]... from the n-th subscript of path on: the first failing subscript raises
GetPath(v, path, n) ==
    IF n > Len(path) THEN Return(v)
    ELSE LET r == IF path[n].index THEN GetIndex(v, path[n].i) ELSE GetKey(v, path[n].key) IN
         IF r.ok THEN GetPath(r.val, path, n + 1) ELSE r

(***************************************************************************)
(* json.loads, on the JSON subset the notification uses: objects, arrays,  *)
(* strings without escapes, non-negative integers, null, true, false.      *)
(***************************************************************************)
RECURSIVE SkipWs(_, _)
SkipWs(s, i) == IF i <= Len(s) /\ s[i] = " " THEN SkipWs(s, i + 1) ELSE i

RECURSIVE ScanString(_, _)
\* the position of the closing quote of a string whose content starts at i, or 0
ScanString(s, i) ==
    IF i > Len(s) THEN 0
    ELSE IF s[i] = "\"" THEN i
    ELSE ScanString(s, i + 1)

RECURSIVE ScanDigits(_, _)
\* the first position at or after i that holds no digit
ScanDigits(s, i) == IF i <= Len(s) /\ IsDigit(s[i]) THEN ScanDigits(s, i + 1) ELSE i

RECURSIVE DigitsVal(_, _, _)
DigitsVal(s, i, j) ==
    IF j < i THEN 0 ELSE 10 * DigitsVal(s, i, j - 1) + DigitVal(s[j])

Parsed(v, pos) == [ok |-> TRUE, val |-> v, pos |-> pos]
ParseFail == [ok |-> FALSE, err |-> "JSONDecodeError"]

RECURSIVE ParseValue(_, _)
RECURSIVE ParseMembers(_, _, _)
RECURSIVE ParseElements(_, _, _)

\* one JSON value starting at position i (leading blanks skipped)
ParseValue(s, i0) ==
    LET i == SkipWs(s, i0) IN
    IF i > Len(s) THEN ParseFail
    ELSE IF s[i] = "\"" THEN
        LET e == ScanString(s, i + 1) IN
        IF e = 0 THEN ParseFail ELSE Parsed(Str(SubSeq(s, i + 1, e - 1)), e + 1)
    ELSE IF IsDigit(s[i]) THEN
        LET e == ScanDigits(s, i) IN Parsed(PyInt(DigitsVal(s, i, e - 1)), e)
    ELSE IF MatchAt(s, i, S_null) THEN Parsed(None, i + 4)
    ELSE IF MatchAt(s, i, S_true) THEN Parsed(Bool(TRUE), i + 4)
    ELSE IF MatchAt(s, i, S_false) THEN Parsed(Bool(FALSE), i + 5)
    ELSE IF s[i] = "{" THEN
        LET j == SkipWs(s, i + 1) IN
        IF j <= Len(s) /\ s[j] = "}" THEN Parsed(Dict(<<>>), j + 1)
        ELSE ParseMembers(s, j, <<>>)
    ELSE IF s[i] = "[" THEN
        LET j == SkipWs(s, i + 1) IN
        IF j <= Len(s) /\ s[j] = "]" THEN Parsed(List(<<>>), j + 1)
        ELSE ParseElements(s, j, <<>>)
    ELSE ParseFail

\* "key": value pairs up to the closing brace; a repeated key keeps the last value
ParseMembers(s, i0, d) ==
    LET i == SkipWs(s, i0) IN
    IF i > Len(s) \/ s[i] # "\"" THEN ParseFail
    ELSE
      LET e == ScanString(s, i + 1) IN
      IF e = 0 THEN ParseFail
      ELSE
        LET k == SubSeq(s, i + 1, e - 1)
            c == SkipWs(s, e + 1)
        IN
        IF c > Len(s) \/ s[c] # ":" THEN ParseFail
        ELSE
          LET r == ParseValue(s, c + 1) IN
          IF ~r.ok THEN ParseFail
          ELSE
            LET d2 == (k :> r.val) @@ d
                n  == SkipWs(s, r.pos)
            IN
            IF n > Len(s) THEN ParseFail
            ELSE IF s[n] = "}" THEN Parsed(Dict(d2), n + 1)
            ELSE IF s[n] = "," THEN ParseMembers(s, n + 1, d2)
            ELSE ParseFail

\* values up to the closing bracket
ParseElements(s, i0, l) ==
    LET r == ParseValue(s, i0) IN
    IF ~r.ok THEN ParseFail
    ELSE
      LET l2 == Append(l, r.val)
          n  == SkipWs(s, r.pos)
      IN
      IF n > Len(s) THEN ParseFail
      ELSE IF s[n] = "]" THEN Parsed(List(l2), n + 1)
      ELSE IF s[n] = "," THEN ParseElements(s, n + 1, l2)
      ELSE ParseFail

\* json.loads(v): TypeError unless v is a str; JSONDecodeError unless the text is
\* one JSON value
json_loads(v) ==
    IF ~IsStr(v) THEN Raise("TypeError")
    ELSE
      LET r == ParseValue(v.s, 1) IN
      IF ~r.ok THEN Raise("JSONDecodeError")
      ELSE IF SkipWs(v.s, r.pos) <= Len(v.s) THEN Raise("JSONDecodeError")
      ELSE Return(r.val)

(***************************************************************************)
(* s3_event_info                                                           *)
(***************************************************************************)
\* event['Records'][0]['Sns']['Message']
EventMessage(event) ==
    GetPath(event, <<Key(S_Records), Index(0), Key(S_Sns), Key(S_Message)>>, 1)

\* messagejson['Records'][-1]['s3'][section][field]: the last record, not the first
MessageFieldLast(messagejson, section, field) ==
    GetPath(messagejson, <<Key(S_Records), Index(-1), Key(S_s3), Key(section), Key(field)>>, 1)

\* messagejson['Records'][0]['s3'][section][field]
MessageField(messagejson, section, field) ==
    GetPath(messagejson, <<Key(S_Records), Index(0), Key(S_s3), Key(section), Key(field)>>, 1)

\* a check that also refuses the empty string
RequireNonEmptyStr(r) ==
    IF ~r.ok THEN r
    ELSE IF ~IsStr(r.val) THEN Raise("TypeError")
    ELSE IF r.val.s = <<>> THEN Raise("ValueError")
    ELSE r

\* if not isinstance(x, str): raise TypeError
RequireStr(r) ==
    IF ~r.ok THEN r
    ELSE IF ~IsStr(r.val) THEN Raise("TypeError")
    ELSE r

s3_event_info(event) ==
    LET message == EventMessage(event) IN
    IF ~message.ok THEN message
    ELSE
      LET messagejson == json_loads(message.val) IN
      IF ~messagejson.ok THEN messagejson
      ELSE
        LET bucket_name == RequireStr(MessageField(messagejson.val, S_bucket, S_name)) IN
        IF ~bucket_name.ok THEN bucket_name
        ELSE
          LET file_key_attribute ==
                RequireStr(MessageField(messagejson.val, S_object, S_key)) IN
          IF ~file_key_attribute.ok THEN file_key_attribute
          ELSE Return(<<bucket_name.val, file_key_attribute.val>>)

(***************************************************************************)
(* file_downloader, sheet_name_grabber                                     *)
(***************************************************************************)
\* the contents of a stored object
Xlsx(sheets) == [t |-> "bytes", fmt |-> "xlsx", sheets |-> sheets]
Junk         == [t |-> "bytes", fmt |-> "junk"]
Csv(lines)   == [t |-> "bytes", fmt |-> "csv", lines |-> lines]
Unset        == [t |-> "unset"]

\* s3.get_object(Bucket=..., Key=...)['Body'].read(): the object's bytes, or a
\* ClientError when the object is missing or the service refuses or fails
file_downloader(store, bucket_name, file_key_attribute, fault) ==
    IF fault \/ <<bucket_name, file_key_attribute>> \notin DOMAIN store
    THEN Raise("ClientError")
    ELSE Return(store[<<bucket_name, file_key_attribute>>])

\* the workbook load_workbook returns
Workbook(sheets) == [t |-> "Workbook", sheets |-> sheets]

\* load_workbook(io.BytesIO(iofile), data_only=True) and .sheetnames
sheet_name_grabber(iofile) ==
    IF iofile.fmt = "xlsx"
    THEN Return(<<Workbook(iofile.sheets),
                  List([n \in 1..Len(iofile.sheets) |-> iofile.sheets[n].name])>>)
    ELSE Raise("BadZipFile")

(***************************************************************************)
(* tagger                                                                  *)
(***************************************************************************)
\* sheet_name.startswith('Table')
EligiblePrefix(sheet_name) == MatchAt(sheet_name, 1, S_Table)

\* 'Table' in sheet_name
Eligible(sheet_name) == Contains(sheet_name, S_Table)

\* workbook[sheet_name]
GetSheet(workbook, sheet_name) ==
    IF \E n \in 1..Len(workbook) : workbook[n].name = sheet_name
    THEN Return(workbook[CHOOSE n \in 1..Len(workbook) : workbook[n].name = sheet_name])
    ELSE Raise("KeyError")

\* a read that gives None in the place of the IndexError
CellC1OrNone(grid) ==
    IF Len(grid) >= 1 /\ Len(grid[1]) >= 3 THEN Return(grid[1][3]) ELSE Return(None)

\* df.iloc[0, 2] on the grid of pd.DataFrame(ws.values)
CellC1(grid) ==
    IF Len(grid) >= 1 /\ Len(grid[1]) >= 3 THEN Return(grid[1][3]) ELSE Raise("IndexError")

RECURSIVE SplitFrom(_, _, _, _)
\* the pieces of s from position i on, cur being the piece under way
SplitFrom(s, sep, i, cur) ==
    IF i > Len(s) THEN <<cur>>
    ELSE IF s[i] = sep THEN <<cur>> \o SplitFrom(s, sep, i + 1, <<>>)
    ELSE SplitFrom(s, sep, i + 1, Append(cur, s[i]))

\* a split that drops the empty pieces
SplitDropEmpty(s) == SelectSeq(SplitFrom(s, ".", 1, <<>>), LAMBDA piece : piece # <<>>)

\* s.split('.')
Split(s) == SplitFrom(s, ".", 1, <<>>)

\* the DataFrame of lines 104-105: the two labelled columns, one row per title
DataFrame(titles, tags) ==
    [t |-> "DataFrame",
     columns |-> <<S_ColName, S_ColTags>>,
     rows |-> [n \in 1..Len(titles) |-> [name |-> titles[n], tags |-> tags[n]]]]

RECURSIVE TaggerLoop(_, _, _, _, _)
\* the for loop of tagger from the n-th sheet name on
TaggerLoop(workbook, sheetnamelist, n, titles, tags) ==
    IF n > Len(sheetnamelist) THEN Return(DataFrame(titles, tags))
    ELSE IF ~Eligible(sheetnamelist[n])
         THEN TaggerLoop(workbook, sheetnamelist, n + 1, titles, tags)
    ELSE
      LET ws   == GetSheet(workbook, sheetnamelist[n])
          cell == IF ws.ok THEN CellC1(ws.val.grid) ELSE ws
      IN
      IF ~cell.ok THEN cell
      ELSE TaggerLoop(workbook, sheetnamelist, n + 1,
                      Append(titles, cell.val), Append(tags, Split(PyStr(cell.val))))

tagger(workbook, sheetnamelist) == TaggerLoop(workbook, sheetnamelist, 1, <<>>, <<>>)

(***************************************************************************)
(* uploader                                                                *)
(***************************************************************************)
RECURSIVE ReplaceFrom(_, _, _, _)
\* s[i:].replace(old, new): left to right, occurrences that do not overlap
ReplaceFrom(s, old, new, i) ==
    IF i > Len(s) THEN <<>>
    ELSE IF MatchAt(s, i, old) THEN new \o ReplaceFrom(s, old, new, i + Len(old))
    ELSE <<s[i]>> \o ReplaceFrom(s, old, new, i + 1)

\* key.replace('.xlsx', '_tagged.csv', 1): the first occurrence only
FileNameFirstOnly(key) ==
    IF \E q \in 1..Len(key) : MatchAt(key, q, S_xlsx)
    THEN LET q == CHOOSE q \in 1..Len(key) :
                    MatchAt(key, q, S_xlsx) /\ \A r \in 1..(q - 1) : ~MatchAt(key, r, S_xlsx)
         IN SubSeq(key, 1, q - 1) \o S_tagged \o SubSeq(key, q + Len(S_xlsx), Len(key))
    ELSE key

\* key.replace('.xlsx', '_tagged.csv')
FileName(key) == ReplaceFrom(key, S_xlsx, S_tagged, 1)

\* the file name without the 'Tags/' in front
NewHomeNoPrefix(key) == FileName(key)

\* 'Tags/' + file_name
NewHome(key) == S_TagsDir \o FileName(key)

RECURSIVE ReprTags(_, _)
\* the items of str(['a', 'b']) from the n-th on
ReprTags(tags, n) ==
    IF n > Len(tags) THEN <<>>
    ELSE (IF n > 1 THEN <<",", " ">> ELSE <<>>) \o <<"'">> \o tags[n] \o <<"'">>
         \o ReprTags(tags, n + 1)

\* df.to_csv(csv_buffer): the header line, then index, name and str(tags) per row;
\* a missing value is written as the empty field
to_csv(df) ==
    Csv(<< <<<<>>, df.columns[1], df.columns[2]>> >> \o
        [n \in 1..Len(df.rows) |->
            <<IntStr(n - 1),
              IF df.rows[n].name.t = "None" THEN <<>> ELSE PyStr(df.rows[n].name),
              <<"[">> \o ReprTags(df.rows[n].tags, 1) \o <<"]">> >>])

\* a put that keeps the object already stored under the key
PutObjectIfAbsent(store, bucket_name, newhome, body) ==
    IF <<bucket_name, newhome>> \in DOMAIN store THEN store
    ELSE (<<bucket_name, newhome>> :> body) @@ store

\* s3_resource.Object(bucket_name, newhome).put(Body=...): the object is replaced
PutObject(store, bucket_name, newhome, body) ==
    (<<bucket_name, newhome>> :> body) @@ store

\* f"The file has been uploaded to {bucket_name}"
Message(bucket_name) == S_Uploaded \o bucket_name

\* uploader(key, df, bucket_name) over the bucket contents store: what it returns
\* or raises, the bucket contents it leaves, and the put it made, if any
uploader(store, key, df, bucket_name, fault) ==
    LET newhome == NewHome(key) IN
    IF df.t # "DataFrame"
    THEN [result |-> Raise("TypeError"), store |-> store, puts |-> <<>>]
    ELSE IF fault
    THEN [result |-> Raise("ClientError"), store |-> store,
          puts |-> <<[bucket |-> bucket_name, key |-> newhome, body |-> to_csv(df)]>>]
    ELSE [result |-> Return(Message(bucket_name)),
          store |-> PutObject(store, bucket_name, newhome, to_csv(df)),
          puts |-> <<[bucket |-> bucket_name, key |-> newhome, body |-> to_csv(df)]>>]

(***************************************************************************)
(* The notification: how the event handed to s3_tagger is built            *)
(***************************************************************************)
RECURSIVE json_dumps(_)
RECURSIVE DumpMembers(_, _)
RECURSIVE DumpElements(_, _)

\* the text of a JSON value, with the separators ", " and ": "
json_dumps(v) ==
    CASE v.t = "str"  -> <<"\"">> \o v.s \o <<"\"">>
      [] v.t = "int"  -> IntStr(v.n)
      [] v.t = "None" -> S_null
      [] v.t = "bool" -> IF v.b THEN S_true ELSE S_false
      [] v.t = "dict" -> <<"{">> \o DumpMembers(v.d, DOMAIN v.d) \o <<"}">>
      [] v.t = "list" -> <<"[">> \o DumpElements(v.l, 1) \o <<"]">>

DumpMembers(d, keys) ==
    IF keys = {} THEN <<>>
    ELSE LET k == CHOOSE k \in keys : TRUE IN
         <<"\"">> \o k \o <<"\"", ":", " ">> \o json_dumps(d[k])
         \o (IF keys = {k} THEN <<>> ELSE <<",", " ">> \o DumpMembers(d, keys \ {k}))

DumpElements(l, n) ==
    IF n > Len(l) THEN <<>>
    ELSE json_dumps(l[n])
         \o (IF n = Len(l) THEN <<>> ELSE <<",", " ">> \o DumpElements(l, n + 1))

EmptyDict == Dict(<<>>)

\* one record of the storage notification
S3Record(bval, kval) ==
    Dict(S_s3 :> Dict((S_bucket :> Dict(S_name :> bval)) @@ (S_object :> Dict(S_key :> kval))))

DecoyBucket == <<"o","t","h","e","r">>
DecoyKey    == <<"o","t","h","e","r",".","x","l","s","x">>
DecoyRecord == S3Record(Str(DecoyBucket), Str(DecoyKey))

\* shapes whose path to both values exists
InnerWhole == {"ok", "two_records"}
\* shapes in which a key or an index of the path is missing
InnerMissing == {"no_Records", "Records_empty", "Records_dict", "no_s3", "no_bucket",
                 "no_name", "no_object", "no_key"}
\* shapes in which the path runs into a value that is no mapping or list
InnerBlocked == {"top_list", "top_null", "Records_str", "s3_null", "bucket_str",
                 "object_list"}
\* the shapes whose defect lies on the key's side only: the bucket name is there
InnerKeySide == {"no_object", "no_key", "object_list"}

\* the structure the Message decodes to
InnerMessage(shape, bval, kval) ==
    CASE shape = "ok"            -> Dict(S_Records :> List(<<S3Record(bval, kval)>>))
      [] shape = "two_records"   -> Dict(S_Records :> List(<<S3Record(bval, kval), DecoyRecord>>))
      [] shape = "top_list"      -> List(<<>>)
      [] shape = "top_null"      -> None
      [] shape = "no_Records"    -> EmptyDict
      [] shape = "Records_empty" -> Dict(S_Records :> List(<<>>))
      [] shape = "Records_dict"  -> Dict(S_Records :> EmptyDict)
      [] shape = "Records_str"   -> Dict(S_Records :> Str(<<"a", "b">>))
      [] shape = "no_s3"         -> Dict(S_Records :> List(<<EmptyDict>>))
      [] shape = "s3_null"       -> Dict(S_Records :> List(<<Dict(S_s3 :> None)>>))
      [] shape = "no_bucket"     ->
            Dict(S_Records :> List(<<Dict(S_s3 :> Dict(S_object :> Dict(S_key :> kval)))>>))
      [] shape = "bucket_str"    ->
            Dict(S_Records :> List(<<Dict(S_s3 :>
                Dict((S_bucket :> bval) @@ (S_object :> Dict(S_key :> kval))))>>))
      [] shape = "no_name"       ->
            Dict(S_Records :> List(<<Dict(S_s3 :>
                Dict((S_bucket :> EmptyDict) @@ (S_object :> Dict(S_key :> kval))))>>))
      [] shape = "no_object"     ->
            Dict(S_Records :> List(<<Dict(S_s3 :> Dict(S_bucket :> Dict(S_name :> bval)))>>))
      [] shape = "no_key"        ->
            Dict(S_Records :> List(<<Dict(S_s3 :>
                Dict((S_bucket :> Dict(S_name :> bval)) @@ (S_object :> EmptyDict)))>>))
      [] shape = "object_list"   ->
            Dict(S_Records :> List(<<Dict(S_s3 :>
                Dict((S_bucket :> Dict(S_name :> bval)) @@ (S_object :> List(<<>>))))>>))

OuterWhole   == {"ok", "two_records"}
OuterMissing == {"event_empty", "Records_empty", "no_Sns", "no_Message"}
OuterBlocked == {"Records_null", "Sns_str"}
OuterNoText  == {"Message_dict"}
OuterBadText == {"Message_truncated", "Message_empty", "Message_trailing"}

SnsRecord(m) == Dict(S_Sns :> Dict(S_Message :> m))

\* the event: the outer wrapper around the Message whose text encodes inner
OuterEvent(shape, inner) ==
    LET text == json_dumps(inner) IN
    CASE shape = "ok"                -> Dict(S_Records :> List(<<SnsRecord(Str(text))>>))
      [] shape = "two_records"       ->
            Dict(S_Records :> List(<<SnsRecord(Str(text)),
                SnsRecord(Str(json_dumps(Dict(S_Records :> List(<<DecoyRecord>>)))))>>))
      [] shape = "event_empty"       -> EmptyDict
      [] shape = "Records_empty"     -> Dict(S_Records :> List(<<>>))
      [] shape = "Records_null"      -> Dict(S_Records :> None)
      [] shape = "no_Sns"            -> Dict(S_Records :> List(<<EmptyDict>>))
      [] shape = "Sns_str"           -> Dict(S_Records :> List(<<Dict(S_Sns :> Str(text))>>))
      [] shape = "no_Message"        -> Dict(S_Records :> List(<<Dict(S_Sns :> EmptyDict)>>))
      [] shape = "Message_dict"      -> Dict(S_Records :> List(<<SnsRecord(inner)>>))
      [] shape = "Message_truncated" ->
            Dict(S_Records :> List(<<SnsRecord(Str(SubSeq(text, 1, Len(text) - 1)))>>))
      [] shape = "Message_empty"     -> Dict(S_Records :> List(<<SnsRecord(Str(<<>>))>>))
      [] shape = "Message_trailing"  ->
            Dict(S_Records :> List(<<SnsRecord(Str(text \o <<"}">>))>>))

\* an event is described by its two shapes and the two values it carries
Desc(outer, inner, bval, kval) ==
    [outer |-> outer, inner |-> inner, bval |-> bval, kval |-> kval]

MkEvent(desc) == OuterEvent(desc.outer, InnerMessage(desc.inner, desc.bval, desc.kval))

\* the event the storage service sends for an upload of bucket/key
UploadDesc(bucket_name, key) == Desc("ok", "ok", Str(bucket_name), Str(key))

\* the events whose path to both values exists
Whole(desc) == desc.outer \in OuterWhole /\ desc.inner \in InnerWhole
\* ... and whose two values are strings
Valid(desc) == Whole(desc) /\ IsStr(desc.bval) /\ IsStr(desc.kval)

(***************************************************************************)
(* Inputs                                                                  *)
(***************************************************************************)
MaxKeyParts == 2
MaxSheets   == 3
MaxCellLen  == 3

B1 == <<"b","k","t">>
K1 == <<"a",".","x","l","s","x">>
K2 == <<"a","_","t","a","g","g","e","d",".","c","s","v">>
S_report == <<"d","a","t","a","/","r","e","p","o","r","t">>
S_region == <<"r","e","g","i","o","n",".","u","s","-","e","a","s","t",".","p","r","o","d">>

StrLeaves    == {Str(B1), Str(K1), Str(<<>>)}
NonStrLeaves == {PyInt(7), None, Bool(TRUE), EmptyDict, List(<<Str(B1)>>)}
Leaves       == StrLeaves \cup NonStrLeaves

\* the pieces object keys are put together from
KeyFragments == {S_xlsx, <<".","x","l","s">>, <<"x">>, <<".">>, <<"a">>, S_report,
                 S_tagged, S_TagsDir}

RECURSIVE KeysOf(_)
KeysOf(n) == IF n = 0 THEN {<<>>}
             ELSE LET P == KeysOf(n - 1) IN P \cup {p \o f : p \in P, f \in KeyFragments}
Keys == KeysOf(MaxKeyParts)

SheetNames == { <<"C","o","v","e","r">>, <<"T","a","b","l","e","1">>,
                <<"t","a","b","l","e">>, <<"M","y","T","a","b","l","e","s">>,
                <<"T","a","b","l","e","_","S","u","m","m","a","r","y">> }

\* a sheet's grid: the rows of pd.DataFrame(ws.values), all of one width
Grid(kind, cell) ==
    CASE kind = "1x3"   -> << <<None, None, cell>> >>
      [] kind = "2x4"   -> << <<Str(<<"h">>), None, cell, PyInt(1)>>,
                              <<None, Str(<<"x",".","y">>), Str(<<"z">>), None>> >>
      [] kind = "1x2"   -> << <<cell, cell>> >>
      [] kind = "2x1"   -> << <<cell>>, <<cell>> >>
      [] kind = "empty" -> <<>>

WideGrids  == {"1x3", "2x4"}
SmallGrids == {"1x2", "2x1", "empty"}

Sheet(name, kind, cell) == [name |-> name, grid |-> Grid(kind, cell)]

\* the sheets the workbooks of the sheet-order inputs are made of: the cell read is
\* the sheet's name followed by ".v"
OrderSheets == {Sheet(n, k, Str(n \o <<".","v">>)) : n \in SheetNames, k \in {"1x3", "1x2", "empty"}}

RECURSIVE BooksOf(_)
\* the workbooks of at most n sheets, no two of one name
BooksOf(n) ==
    IF n = 0 THEN {<<>>}
    ELSE LET P == BooksOf(n - 1) IN
         P \cup {Append(p, sh) : p \in P,
                 sh \in {x \in OrderSheets : TRUE}}

NoRepeat(book) == \A m, n \in 1..Len(book) : book[m].name = book[n].name => m = n
OrderBooks == {book \in BooksOf(MaxSheets) : NoRepeat(book)}

CellChars == {".", "a", "b"}
RECURSIVE CellStrings(_)
CellStrings(n) == IF n = 0 THEN {<<>>}
                  ELSE LET P == CellStrings(n - 1) IN P \cup {Append(p, c) : p \in P, c \in CellChars}
\* the values the cell read can hold
CellValues == {Str(s) : s \in CellStrings(MaxCellLen)}
              \cup {Str(S_region), None, PyInt(7), PyInt(120), Float(1, 5), Bool(TRUE)}
CellBooks == {<<Sheet(<<"T","a","b","l","e","1">>, k, c)>> : k \in WideGrids, c \in CellValues}

\* a workbook with one eligible sheet
SmallBook == <<Sheet(<<"C","o","v","e","r">>, "1x2", Str(<<"c">>)),
               Sheet(<<"T","a","b","l","e","1">>, "1x3", Str(<<"a",".","b">>))>>
\* the same workbook saved again with another value in the cell
NewerBook == <<Sheet(<<"C","o","v","e","r">>, "1x2", Str(<<"c">>)),
               Sheet(<<"T","a","b","l","e","1">>, "1x3", Str(<<"a",".","b",".","c">>))>>

\* four sheets, two of them eligible
ExampleBook == <<Sheet(<<"C","o","v","e","r">>, "empty", None),
                 Sheet(<<"T","a","b","l","e","1">>, "1x3", Str(S_region)),
                 Sheet(<<"N","o","t","e","s">>, "2x1", Str(<<"n">>)),
                 Sheet(<<"T","a","b","l","e","_","S","u","m","m","a","r","y">>, "2x4", PyInt(7))>>

\* the events of the event inputs
EventDescs ==
    {Desc(o, n, b, k) : o \in OuterWhole, n \in InnerWhole, b \in Leaves, k \in Leaves}
    \cup {Desc("ok", n, b, k) : n \in InnerMissing \cup InnerBlocked,
                                b \in {Str(B1), None}, k \in {Str(K1), PyInt(7)}}
    \cup {Desc(o, "ok", Str(B1), Str(K1)) :
            o \in OuterMissing \cup OuterBlocked \cup OuterNoText \cup OuterBadText}

NoObjects == <<>>
\* the bucket before the invocation: the object the event names, when there is one
StoreFor(desc, file, present) ==
    IF present /\ Valid(desc) /\ desc.bval.s # <<>> /\ desc.kval.s # <<>>
    THEN (<<desc.bval.s, desc.kval.s>> :> file) @@ NoObjects
    ELSE NoObjects

(***************************************************************************)
(* State                                                                   *)
(***************************************************************************)
VARIABLES
    given,     \* per invocation: the description of its event
    event,     \* per invocation: the event argument of s3_tagger
    pc,        \* per invocation: the step to run next, or "returned" / "raised"
    local,     \* per invocation: the local variables of s3_tagger
    outcome,   \* per invocation: what s3_tagger returned or raised
    storage,   \* the bucket contents: <<bucket, key>> -> object
    requests,  \* the storage requests made so far, in order
    calls      \* per invocation: the steps called so far, in order

vars == <<given, event, pc, local, outcome, storage, requests, calls>>

Steps == <<"s3_event_info", "file_downloader", "sheet_name_grabber", "tagger", "uploader">>

Locals0 == [bucket |-> Unset, key |-> Unset, body |-> Unset, attribute_ex |-> Unset,
            sheet_names_attribute |-> Unset, df |-> Unset]

Request(i, op, bucket_name, key, ok, body) ==
    [inv |-> i, op |-> op, bucket |-> bucket_name, key |-> key, ok |-> ok, body |-> body]

\* one invocation of s3_tagger(event, context) about to start
InitOne(desc, store) ==
    /\ given = <<desc>>
    /\ event = <<MkEvent(desc)>>
    /\ pc = <<"s3_event_info">>
    /\ local = <<Locals0>>
    /\ outcome = <<Unset>>
    /\ storage = store
    /\ requests = <<>>
    /\ calls = << <<>> >>

\* any event, over a bucket that holds a workbook, other bytes, or nothing
InitEvents ==
    \E desc \in EventDescs, file \in {Xlsx(SmallBook), Junk}, present \in BOOLEAN :
        /\ ~Valid(desc) => (present /\ file = Junk)
        /\ InitOne(desc, StoreFor(desc, file, present))

\* any object key
InitKeys ==
    \E k \in Keys :
        LET desc == UploadDesc(B1, k) IN InitOne(desc, StoreFor(desc, Xlsx(SmallBook), TRUE))

\* any workbook: sheets in any order, well-formed or not
InitBooks ==
    \E book \in OrderBooks \cup CellBooks \cup {ExampleBook} :
        LET desc == UploadDesc(B1, K1) IN InitOne(desc, StoreFor(desc, Xlsx(book), TRUE))

Init == InitEvents \/ InitKeys \/ InitBooks

(***************************************************************************)
(* s3_tagger: one action per step                                          *)
(***************************************************************************)
Called(i, step) == calls' = [calls EXCEPT ![i] = Append(@, step)]

\* the step's error leaves s3_tagger uncaught
Raised(i, err) ==
    /\ pc' = [pc EXCEPT ![i] = "raised"]
    /\ outcome' = [outcome EXCEPT ![i] = Raise(err)]

\* bucket, key = s3_event_info(event)
S3EventInfo(i) ==
    /\ pc[i] = "s3_event_info"
    /\ Called(i, "s3_event_info")
    /\ LET r == s3_event_info(event[i]) IN
       IF r.ok
       THEN /\ local' = [local EXCEPT ![i].bucket = r.val[1], ![i].key = r.val[2]]
            /\ pc' = [pc EXCEPT ![i] = "file_downloader"]
            /\ UNCHANGED outcome
       ELSE Raised(i, r.err) /\ UNCHANGED local
    /\ UNCHANGED <<given, event, storage, requests>>

\* a file_downloader that tries the read a second time when it fails
FileDownloaderRetry(i) ==
    /\ pc[i] = "file_downloader"
    /\ Called(i, "file_downloader")
    /\ \E fault \in BOOLEAN :
         LET b == local[i].bucket.s
             k == local[i].key.s
             r == file_downloader(storage, b, k, fault)
             tried == Cardinality({n \in DOMAIN requests : requests[n].inv = i})
         IN
         /\ requests' = Append(requests,
                               Request(i, "get", b, k, r.ok, IF r.ok THEN r.val ELSE Unset))
         /\ IF r.ok
            THEN /\ local' = [local EXCEPT ![i].body = r.val]
                 /\ pc' = [pc EXCEPT ![i] = "sheet_name_grabber"]
                 /\ UNCHANGED outcome
            ELSE IF tried = 0
            THEN UNCHANGED <<pc, local, outcome>>
            ELSE Raised(i, r.err) /\ UNCHANGED local
    /\ UNCHANGED <<given, event, storage>>

\* body = file_downloader(bucket, key)
FileDownloader(i) ==
    /\ pc[i] = "file_downloader"
    /\ Called(i, "file_downloader")
    /\ \E fault \in BOOLEAN :
         LET b == local[i].bucket.s
             k == local[i].key.s
             r == file_downloader(storage, b, k, fault)
         IN
         /\ requests' = Append(requests,
                               Request(i, "get", b, k, r.ok, IF r.ok THEN r.val ELSE Unset))
         /\ IF r.ok
            THEN /\ local' = [local EXCEPT ![i].body = r.val]
                 /\ pc' = [pc EXCEPT ![i] = "sheet_name_grabber"]
                 /\ UNCHANGED outcome
            ELSE Raised(i, r.err) /\ UNCHANGED local
    /\ UNCHANGED <<given, event, storage>>

\* attribute_ex, sheet_names_attribute = sheet_name_grabber(body)
SheetNameGrabber(i) ==
    /\ pc[i] = "sheet_name_grabber"
    /\ Called(i, "sheet_name_grabber")
    /\ LET r == sheet_name_grabber(local[i].body) IN
       IF r.ok
       THEN /\ local' = [local EXCEPT ![i].attribute_ex = r.val[1],
                                      ![i].sheet_names_attribute = r.val[2]]
            /\ pc' = [pc EXCEPT ![i] = "tagger"]
            /\ UNCHANGED outcome
       ELSE Raised(i, r.err) /\ UNCHANGED local
    /\ UNCHANGED <<given, event, storage, requests>>

\* df = tagger(attribute_ex, sheet_names_attribute)
Tagger(i) ==
    /\ pc[i] = "tagger"
    /\ Called(i, "tagger")
    /\ LET r == tagger(local[i].attribute_ex.sheets, local[i].sheet_names_attribute.l) IN
       IF r.ok
       THEN /\ local' = [local EXCEPT ![i].df = r.val]
            /\ pc' = [pc EXCEPT ![i] = "uploader"]
            /\ UNCHANGED outcome
       ELSE Raised(i, r.err) /\ UNCHANGED local
    /\ UNCHANGED <<given, event, storage, requests>>

\* message = uploader(key, df, bucket); return message
Uploader(i) ==
    /\ pc[i] = "uploader"
    /\ Called(i, "uploader")
    /\ \E fault \in BOOLEAN :
         LET u == uploader(storage, local[i].key.s, local[i].df, local[i].bucket.s, fault) IN
         /\ storage' = u.store
         /\ requests' = requests \o
                [n \in 1..Len(u.puts) |->
                    Request(i, "put", u.puts[n].bucket, u.puts[n].key, u.result.ok, u.puts[n].body)]
         /\ IF u.result.ok
            THEN /\ pc' = [pc EXCEPT ![i] = "returned"]
                 /\ outcome' = [outcome EXCEPT ![i] = u.result]
            ELSE Raised(i, u.result.err)
    /\ UNCHANGED <<given, event, local>>

Next ==
    \/ \E i \in DOMAIN pc : S3EventInfo(i)
    \/ \E i \in DOMAIN pc : FileDownloader(i)
    \/ \E i \in DOMAIN pc : SheetNameGrabber(i)
    \/ \E i \in DOMAIN pc : Tagger(i)
    \/ \E i \in DOMAIN pc : Uploader(i)

Spec == Init /\ [][Next]_vars

(***************************************************************************)
(* Two invocations: a second upload to the bucket triggers s3_tagger again *)
(* while the first invocation may still be running.                        *)
(***************************************************************************)
RaceKeys == {K1, K2}

\* the user's uploads are requests of invocation 0
InitRace ==
    \E k \in RaceKeys :
        /\ given = <<UploadDesc(B1, k), Unset>>
        /\ event = <<MkEvent(UploadDesc(B1, k)), Unset>>
        /\ pc = <<"s3_event_info", "idle">>
        /\ local = <<Locals0, Locals0>>
        /\ outcome = <<Unset, Unset>>
        /\ storage = PutObject(NoObjects, B1, k, Xlsx(SmallBook))
        /\ requests = <<Request(0, "put", B1, k, TRUE, Xlsx(SmallBook))>>
        /\ calls = << <<>>, <<>> >>

\* the newer file is uploaded and its notification starts invocation i
UploadAgain(i) ==
    /\ pc[i] = "idle"
    /\ \E k \in RaceKeys :
         /\ storage' = PutObject(storage, B1, k, Xlsx(NewerBook))
         /\ requests' = Append(requests, Request(0, "put", B1, k, TRUE, Xlsx(NewerBook)))
         /\ given' = [given EXCEPT ![i] = UploadDesc(B1, k)]
         /\ event' = [event EXCEPT ![i] = MkEvent(UploadDesc(B1, k))]
    /\ pc' = [pc EXCEPT ![i] = "s3_event_info"]
    /\ UNCHANGED <<local, outcome, calls>>

NextRace ==
    \/ \E i \in DOMAIN pc : UploadAgain(i)
    \/ \E i \in DOMAIN pc : S3EventInfo(i)
    \/ \E i \in DOMAIN pc : FileDownloader(i)
    \/ \E i \in DOMAIN pc : SheetNameGrabber(i)
    \/ \E i \in DOMAIN pc : Tagger(i)
    \/ \E i \in DOMAIN pc : Uploader(i)

SpecRace == InitRace /\ [][NextRace]_vars

(***************************************************************************)
(* Vocabulary of the properties                                            *)
(***************************************************************************)
Invocations == {i \in DOMAIN pc : pc[i] # "idle"}

\* KeyError and IndexError are the subclasses of LookupError
LookupErrors == {"KeyError", "IndexError"}

\* the positions in requests of invocation i's reads and writes
GetsOf(i) == {n \in DOMAIN requests : requests[n].inv = i /\ requests[n].op = "get"}
PutsOf(i) == {n \in DOMAIN requests : requests[n].inv = i /\ requests[n].op = "put"}

\* the n-th step of invocation i has produced its result
StepDone(i, n) ==
    CASE n = 1 -> local[i].bucket # Unset /\ local[i].key # Unset
      [] n = 2 -> local[i].body # Unset
      [] n = 3 -> local[i].attribute_ex # Unset /\ local[i].sheet_names_attribute # Unset
      [] n = 4 -> local[i].df # Unset
      [] n = 5 -> outcome[i] # Unset /\ outcome[i].ok

\* invocation i ended in its n-th step with an error of errs, before any request
FailedIn(i, n, errs) ==
    /\ pc[i] = "raised"
    /\ Len(calls[i]) = n
    /\ outcome[i] # Unset /\ ~outcome[i].ok /\ outcome[i].err \in errs

\* the name holds "Table" somewhere: name = a \o "Table" \o b
HasTable(name) ==
    \E k \in 0..(Len(name) - 5) : SubSeq(name, k + 1, k + 5) = <<"T","a","b","l","e">>

SheetOf(workbook, name) == workbook[CHOOSE m \in 1..Len(workbook) : workbook[m].name = name]

\* the grid has a row 0 and a column 2
HasC1(grid) == Len(grid) >= 1 /\ Len(grid[1]) >= 3

\* the positions of the eligible names of invocation i's workbook
SheetNamesOf(i) == local[i].sheet_names_attribute.l

EligibleAt(i) == {n \in 1..Len(SheetNamesOf(i)) : HasTable(SheetNamesOf(i)[n])}

GridAt(i, n) == SheetOf(local[i].attribute_ex.sheets, SheetNamesOf(i)[n]).grid

\* the place among the eligible sheets of the eligible sheet at position n
Rank(i, n) == Cardinality({m \in EligibleAt(i) : m <= n})

RECURSIVE Join(_, _)
\* ".".join(tags[n:]), n counting from 1
Join(tags, n) ==
    IF n > Len(tags) THEN <<>>
    ELSE tags[n] \o (IF n = Len(tags) THEN <<>> ELSE <<".">> \o Join(tags, n + 1))

Dots(s) == Cardinality({n \in 1..Len(s) : s[n] = "."})

\* the positions at which ".xlsx" starts in key
XlsxAt(key) == {q \in 1..(Len(key) - 4) : SubSeq(key, q, q + 4) = <<".","x","l","s","x">>}

\* dest is "Tags/" followed by key with each ".xlsx" turned into "_tagged.csv":
\* every ".xlsx" is found as "_tagged.csv" six places further right per ".xlsx"
\* before it, and every other character is kept, shifted the same way
IsTaggedHome(dest, key) ==
    LET occ == XlsxAt(key)
        before(q) == Cardinality({o \in occ : o < q})
        inside(q) == \E o \in occ : o <= q /\ q <= o + 4
    IN
    /\ Len(dest) = 5 + Len(key) + 6 * Cardinality(occ)
    /\ SubSeq(dest, 1, 5) = <<"T","a","g","s","/">>
    /\ \A o \in occ :
         SubSeq(dest, 5 + o + 6 * before(o), 5 + o + 6 * before(o) + 10)
            = <<"_","t","a","g","g","e","d",".","c","s","v">>
    /\ \A q \in 1..Len(key) :
         ~inside(q) => dest[5 + q + 6 * before(q)] = key[q]

(***************************************************************************)
(* C1                                                                      *)
(***************************************************************************)
\* C1: s3_tagger calls its five steps in the order s3_event_info,
\* file_downloader, sheet_name_grabber, tagger, uploader, each at most once; it
\* makes at most one storage read and one storage write; the write comes only
\* after the four earlier steps have produced their results and after the read
\* succeeded; a step that fails is the last one called, leaves s3_tagger with
\* that error, no object written and no message; a run that returns returns
\* "The file has been uploaded to " followed by the bucket name of the event.
C1_LinearPipeline ==
    \A i \in Invocations :
        /\ Len(calls[i]) <= 5
        /\ \A n \in 1..Len(calls[i]) : calls[i][n] = Steps[n]
        /\ Cardinality(GetsOf(i)) <= 1
        /\ Cardinality(PutsOf(i)) <= 1
        /\ \A n \in 1..5 :
             StepDone(i, n) <=> (n < Len(calls[i]) \/ (n = Len(calls[i]) /\ pc[i] # "raised"))
        /\ \A w \in PutsOf(i) :
             /\ calls[i] = Steps
             /\ \A n \in 1..4 : StepDone(i, n)
             /\ \E r \in GetsOf(i) : r < w /\ requests[r].ok
        /\ pc[i] = "raised" =>
             /\ outcome[i] # Unset /\ ~outcome[i].ok
             /\ \A w \in PutsOf(i) : ~requests[w].ok
             /\ Len(calls[i]) < 5 => PutsOf(i) = {}
        /\ pc[i] = "returned" =>
             /\ outcome[i] = Return(S_Uploaded \o given[i].bval.s)
             /\ \E w \in PutsOf(i) : requests[w].ok
        /\ pc[i] \notin {"raised", "returned"} =>
             /\ outcome[i] = Unset
             /\ pc[i] = Steps[Len(calls[i]) + 1]

\* a run that went through all five steps, and wrote and returned the message
C1_Witness ==
    /\ pc[1] = "returned"
    /\ calls[1] = Steps
    /\ Len(requests) = 2
    /\ outcome[1] = Return(S_Uploaded \o B1)
    /\ <<B1, S_TagsDir \o S_report \o S_tagged>> \in DOMAIN storage

(***************************************************************************)
(* C2                                                                      *)
(***************************************************************************)
\* C2: when every sheet whose name contains "Table" has the cell, tagger returns
\* a table with the columns "Table_Name/Kafka_Name" and "Tags", in that order,
\* and exactly one row per such sheet, in the order of the sheet names: the row
\* of the k-th eligible sheet holds that sheet's cell. The other sheets are not
\* read, whatever their shape, and with no eligible sheet the table has no row.
C2_OneRowPerTableSheet ==
    \A i \in Invocations :
        (Len(calls[i]) >= 4 /\ \A n \in EligibleAt(i) : HasC1(GridAt(i, n))) =>
            /\ local[i].df # Unset
            /\ local[i].df.columns = <<S_ColName, <<"T","a","g","s">> >>
            /\ Len(local[i].df.rows) = Cardinality(EligibleAt(i))
            /\ \A n \in EligibleAt(i) :
                 local[i].df.rows[Rank(i, n)].name = GridAt(i, n)[1][3]
            /\ EligibleAt(i) = {} => local[i].df.rows = <<>>

\* three sheets, the first and the last eligible ("MyTables", "Table1"), the
\* one between them not eligible ("table") and without the cell: two rows
C2_Witness ==
    /\ local[1].df # Unset
    /\ SheetNamesOf(1) = << <<"M","y","T","a","b","l","e","s">>, <<"t","a","b","l","e">>,
                            <<"T","a","b","l","e","1">> >>
    /\ local[1].attribute_ex.sheets[2].grid = <<>>
    /\ Len(local[1].df.rows) = 2
    /\ local[1].df.rows[1].name = Str(<<"M","y","T","a","b","l","e","s",".","v">>)

C4_DestinationKey ==
    \A i \in Invocations :
        \A w \in PutsOf(i) :
            LET key == given[i].kval.s IN
            /\ requests[w].bucket = given[i].bval.s
            /\ IsTaggedHome(requests[w].key, key)
            /\ XlsxAt(key) = {} => requests[w].key = <<"T","a","g","s","/">> \o key
            /\ key = <<"d","a","t","a","/","r","e","p","o","r","t",".","x","l","s","x">> =>
                 requests[w].key = <<"T","a","g","s","/","d","a","t","a","/","r","e","p","o",
                                     "r","t","_","t","a","g","g","e","d",".","c","s","v">>

\* the key ".xlsx.xlsx" has been written as "Tags/_tagged.csv_tagged.csv"
C4_Witness ==
    /\ pc[1] = "returned"
    /\ given[1].kval.s = S_xlsx \o S_xlsx
    /\ <<B1, S_TagsDir \o S_tagged \o S_tagged>> \in DOMAIN storage

(***************************************************************************)
(* C5                                                                      *)
(***************************************************************************)
\* C5: when some sheet whose name contains "Table" has a grid with no row or
\* with fewer than three columns, tagger raises IndexError wherever that sheet
\* stands: no table is kept, s3_tagger ends with the IndexError and the bucket
\* is not written. tagger fails in no other case, so such a sheet under a name
\* without "Table" does no harm.
C5_ShortSheetRaises ==
    \A i \in Invocations :
        Len(calls[i]) >= 4 =>
            /\ (\E n \in EligibleAt(i) : ~HasC1(GridAt(i, n))) =>
                 /\ FailedIn(i, 4, {"IndexError"})
                 /\ local[i].df = Unset
                 /\ PutsOf(i) = {}
                 /\ DOMAIN storage = {<<given[i].bval.s, given[i].kval.s>>}
            /\ (pc[i] = "raised" /\ Len(calls[i]) = 4) =>
                 \E n \in EligibleAt(i) : ~HasC1(GridAt(i, n))

\* tagger failed on the third sheet after two eligible sheets that have the cell
C5_Witness ==
    /\ FailedIn(1, 4, {"IndexError"})
    /\ EligibleAt(1) = {1, 2, 3}
    /\ HasC1(GridAt(1, 1)) /\ HasC1(GridAt(1, 2)) /\ ~HasC1(GridAt(1, 3))

(***************************************************************************)
(* C6                                                                      *)
(***************************************************************************)
\* C6: for an event whose first outer record holds a Message that decodes to a
\* structure whose first record carries a string bucket name and a string
\* object key, s3_event_info returns that bucket name and that key, in this
\* order and unchanged, whatever records follow the first ones.
C6_DecodesThePair ==
    \A i \in Invocations :
        (Len(calls[i]) >= 1 /\ Valid(given[i])) =>
            /\ StepDone(i, 1)
            /\ local[i].bucket = given[i].bval
            /\ local[i].key = given[i].kval

\* an event with a second outer and a second inner record has been decoded
C6_Witness ==
    /\ given[1].outer = "two_records" /\ given[1].inner = "two_records"
    /\ local[1].bucket = Str(B1) /\ local[1].key = Str(K1)

(***************************************************************************)
(* C7                                                                      *)
(***************************************************************************)
\* the event's path to the bucket name, and to the key once the bucket name has
\* passed its check, lacks a key or an index
MissingPath(desc) ==
    \/ desc.outer \in OuterMissing
    \/ /\ desc.outer \in OuterWhole
       /\ desc.inner \in InnerMissing
       /\ desc.inner \in InnerKeySide => IsStr(desc.bval)

\* ... or runs into a value that cannot be indexed that way
BlockedPath(desc) ==
    \/ desc.outer \in OuterBlocked
    \/ /\ desc.outer \in OuterWhole
       /\ desc.inner \in InnerBlocked
       /\ desc.inner \in InnerKeySide => IsStr(desc.bval)

\* the bucket name is there and is no string, or both values are there and the
\* key is no string
NonStringValue(desc) ==
    /\ desc.outer \in OuterWhole
    /\ \/ desc.inner \in InnerWhole \cup InnerKeySide /\ ~IsStr(desc.bval)
       \/ desc.inner \in InnerWhole /\ ~IsStr(desc.kval)

\* s3_event_info raised an error of errs, and nothing was read or written
DecodeFailed(i, errs) ==
    /\ FailedIn(i, 1, errs)
    /\ ~StepDone(i, 1)
    /\ GetsOf(i) = {} /\ PutsOf(i) = {}

\* C7 as claimed: a bucket name or key that is no string gives a TypeError, an
\* absent path gives a lookup error (KeyError or IndexError), and in both cases
\* nothing is read from or written to storage.
C7_AbsentPathIsLookupError ==
    \A i \in Invocations :
        Len(calls[i]) >= 1 =>
            /\ NonStringValue(given[i]) => DecodeFailed(i, {"TypeError"})
            /\ (MissingPath(given[i]) \/ BlockedPath(given[i])) => DecodeFailed(i, LookupErrors)

\* C7, amended: a bucket name or key that is no string gives a TypeError (the
\* bucket name is checked before the key is read); an absent path gives a
\* KeyError or IndexError when a mapping lacks the key or a list lacks index 0,
\* and a TypeError when a value on the path is no mapping or list of the kind
\* indexed; in every case nothing is read from or written to storage.
C7_DecodeErrors ==
    \A i \in Invocations :
        Len(calls[i]) >= 1 =>
            /\ NonStringValue(given[i]) => DecodeFailed(i, {"TypeError"})
            /\ MissingPath(given[i]) => DecodeFailed(i, LookupErrors)
            /\ BlockedPath(given[i]) => DecodeFailed(i, {"TypeError"})
            /\ (pc[i] = "raised" /\ Len(calls[i]) = 1) => GetsOf(i) = {} /\ PutsOf(i) = {}

\* the record's "s3" is null: the decoder ended in a TypeError, no lookup error
C7_Witness ==
    /\ given[1].inner = "s3_null"
    /\ DecodeFailed(1, {"TypeError"})

(***************************************************************************)
(* C8                                                                      *)
(***************************************************************************)
\* C8 as claimed: what s3_event_info returns is a pair of non-empty strings,
\* and no storage read is made with an empty bucket name or key.
C8_PairIsNonEmpty ==
    \A i \in Invocations :
        /\ StepDone(i, 1) =>
             /\ IsStr(local[i].bucket) /\ local[i].bucket.s # <<>>
             /\ IsStr(local[i].key) /\ local[i].key.s # <<>>
        /\ \A r \in GetsOf(i) : requests[r].bucket # <<>> /\ requests[r].key # <<>>

\* C8, amended: what s3_event_info returns is a pair of strings, either of
\* which may be empty: an event whose bucket name or key is the empty string is
\* decoded like any other, and file_downloader makes its read with those values.
C8_PairOfStrings ==
    \A i \in Invocations :
        /\ StepDone(i, 1) => IsStr(local[i].bucket) /\ IsStr(local[i].key)
        /\ (Len(calls[i]) >= 1 /\ Valid(given[i])
              /\ (given[i].bval.s = <<>> \/ given[i].kval.s = <<>>)) =>
             /\ StepDone(i, 1)
             /\ local[i].bucket = given[i].bval /\ local[i].key = given[i].kval
             /\ Len(calls[i]) >= 2 =>
                  \E r \in GetsOf(i) : /\ requests[r].bucket = given[i].bval.s
                                       /\ requests[r].key = given[i].kval.s

\* the read has been made with the empty bucket name
C8_Witness ==
    /\ StepDone(1, 1)
    /\ local[1].bucket = Str(<<>>)
    /\ \E r \in GetsOf(1) : requests[r].bucket = <<>> /\ requests[r].key = K1

(***************************************************************************)
(* C9                                                                      *)
(***************************************************************************)
\* the successful writes to the object bucket/key, as positions in requests
WritesTo(bucket_name, key) ==
    {n \in DOMAIN requests : /\ requests[n].op = "put" /\ requests[n].ok
                             /\ requests[n].bucket = bucket_name /\ requests[n].key = key}

Last(S) == CHOOSE n \in S : \A m \in S : m <= n

\* the artifact s3_tagger derives from a file
ArtifactOf(file) ==
    to_csv(tagger(file.sheets, [n \in 1..Len(file.sheets) |-> file.sheets[n].name]).val)

\* C9: invocations that run at the same time do not wait for or look at each
\* other: each step of each is enabled whatever the other has done, every
\* invocation that returns has made its own read of its own source and its own
\* write of the artifact of what it read, and returns the message; and every
\* object of the bucket holds what the last write to it put there.
C9_LastPutWins ==
    /\ \A o \in DOMAIN storage :
         /\ WritesTo(o[1], o[2]) # {}
         /\ storage[o] = requests[Last(WritesTo(o[1], o[2]))].body
    /\ \A i \in Invocations :
         /\ pc[i] = "returned" =>
              /\ outcome[i] = Return(S_Uploaded \o given[i].bval.s)
              /\ \E r \in GetsOf(i), w \in PutsOf(i) :
                   /\ r < w /\ requests[r].ok /\ requests[w].ok
                   /\ requests[r].key = given[i].kval.s
                   /\ requests[r].body = local[i].body
                   /\ requests[w].key = S_TagsDir \o K2
                   /\ requests[w].body = ArtifactOf(local[i].body)
         /\ pc[i] = "file_downloader" => ENABLED FileDownloader(i)
         /\ pc[i] = "uploader" => ENABLED Uploader(i)

\* both invocations of the same key have returned; the second one read the
\* newer file and wrote first, the first one read the older file and wrote
\* last: the bucket holds the newer file and the artifact of the older one
C9_Witness ==
    /\ pc = <<"returned", "returned">>
    /\ given[1].kval = Str(K1) /\ given[2].kval = Str(K1)
    /\ local[1].body = Xlsx(SmallBook) /\ local[2].body = Xlsx(NewerBook)
    /\ \E w1 \in PutsOf(1), w2 \in PutsOf(2) : w2 < w1
    /\ storage[<<B1, K1>>] = Xlsx(NewerBook)
    /\ storage[<<B1, S_TagsDir \o K2>>] = ArtifactOf(Xlsx(SmallBook))
    /\ ArtifactOf(Xlsx(SmallBook)) # ArtifactOf(Xlsx(NewerBook))

(***************************************************************************)
(* C10                                                                     *)
(***************************************************************************)
\* C10: every key uploader writes to starts with "Tags/", holds no ".xlsx", and
\* is longer than the key the invocation read, so it is another key: the object
\* written is not the object read, which stays in the bucket as it was read.
C10_NeverOverwritesInput ==
    \A i \in Invocations :
        \A w \in PutsOf(i) :
            LET dest == requests[w].key
                src  == given[i].kval.s
            IN
            /\ Len(dest) >= 5 /\ SubSeq(dest, 1, 5) = <<"T","a","g","s","/">>
            /\ XlsxAt(dest) = {}
            /\ Len(dest) > Len(src)
            /\ dest # src
            /\ \A r \in GetsOf(i) :
                 <<requests[r].bucket, requests[r].key>> # <<requests[w].bucket, dest>>
            /\ requests[w].ok =>
                 storage[<<given[i].bval.s, src>>] = local[i].body

\* the key "Tags/_tagged.csv", which has no ".xlsx", was read and the artifact
\* written beside it under "Tags/Tags/_tagged.csv"
C10_Witness ==
    /\ pc[1] = "returned"
    /\ given[1].kval.s = S_TagsDir \o S_tagged
    /\ DOMAIN storage = {<<B1, S_TagsDir \o S_tagged>>, <<B1, S_TagsDir \o S_TagsDir \o S_tagged>>}

=============================================================================
